---- MODULE Spec2Model ----
(***************************************************************************)
(* A model of orbit_propagation.py: the TLE parser (parse_tle_data), the   *)
(* conversion to published SpaceObject entities (to_space_object), the     *)
(* catalog build over the category feeds and their cache files             *)
(* (update_all_tle_data), and schedule mode (schedule_daily_updates and    *)
(* the --schedule branch of __main__).                                     *)
(*                                                                         *)
(* Representation of values:                                               *)
(*  - a string is a sequence of one-character strings; a TLE text is a     *)
(*    sequence of line names (keys of TleLines), joined by "\n"; the empty *)
(*    sequence is the empty string;                                        *)
(*  - a float read from a TLE field is [neg, ip, fp]: sign, integer part   *)
(*    and fraction in units of 1e-8 (TLE fields carry at most 8 decimals); *)
(*  - period_minutes is held in 1/100 minute, semi_major_axis in 0.1 m,    *)
(*    altitude in 1e-4 km; published (rounded) numbers are in tenths;      *)
(*  - a call that may raise returns [ok |-> FALSE] for the exception and   *)
(*    [ok |-> TRUE, v |-> value] otherwise.                                *)
(***************************************************************************)
EXTENDS Integers, Sequences, FiniteSets, TLC

(* The TLE lines the inputs are built from, character by character. *)
TleLines ==
  [
    \* ISS (ZARYA)
    N_ISS |->
      <<"I","S","S"," ","(","Z","A","R","Y","A",")">>,
    \* COSMOS 2251 DEB
    N_DEB |->
      <<"C","O","S","M","O","S"," ","2","2","5","1"," ","D","E","B">>,
    \* 1 25544U 98067A   24100.50000000  .00016717  00000-0  10270-3 0  9005
    L1_A |->
      <<"1"," ","2","5","5","4","4","U"," ","9","8","0","6","7","A"," "," "," ","2","4","1","0","0",".","5","0","0","0","0","0","0","0"," "," ",".","0","0","0","1","6","7","1","7"," "," ","0","0","0","0","0","-","0"," "," ","1","0","2","7","0","-","3"," ","0"," "," ","9","0","0","5">>,
    \* 1 34427U 93036US  98040.25000000  .00000123  00000-0  12345-3 0  9991
    L1_B |->
      <<"1"," ","3","4","4","2","7","U"," ","9","3","0","3","6","U","S"," "," ","9","8","0","4","0",".","2","5","0","0","0","0","0","0"," "," ",".","0","0","0","0","0","1","2","3"," "," ","0","0","0","0","0","-","0"," "," ","1","2","3","4","5","-","3"," ","0"," "," ","9","9","9","1">>,
    \* 2 25544  51.6416 247.4627 0006703 130.5360 325.0288 15.72125391563537
    L2_ISS |->
      <<"2"," ","2","5","5","4","4"," "," ","5","1",".","6","4","1","6"," ","2","4","7",".","4","6","2","7"," ","0","0","0","6","7","0","3"," ","1","3","0",".","5","3","6","0"," ","3","2","5",".","0","2","8","8"," ","1","5",".","7","2","1","2","5","3","9","1","5","6","3","5","3","7">>,
    \* 2 25544  51.6416 247.4627 0006703 130.5360 325.0288  0.00224961563537
    L2_E500 |->
      <<"2"," ","2","5","5","4","4"," "," ","5","1",".","6","4","1","6"," ","2","4","7",".","4","6","2","7"," ","0","0","0","6","7","0","3"," ","1","3","0",".","5","3","6","0"," ","3","2","5",".","0","2","8","8"," "," ","0",".","0","0","2","2","4","9","6","1","5","6","3","5","3","7">>,
    \* 2 25544  51.6416 247.4627 0006703 130.5360 325.0288  0.00224960563537
    L2_M500 |->
      <<"2"," ","2","5","5","4","4"," "," ","5","1",".","6","4","1","6"," ","2","4","7",".","4","6","2","7"," ","0","0","0","6","7","0","3"," ","1","3","0",".","5","3","6","0"," ","3","2","5",".","0","2","8","8"," "," ","0",".","0","0","2","2","4","9","6","0","5","6","3","5","3","7">>,
    \* 2 25544  51.6416 247.4627 0006703 130.5360 325.0288  0.00210993563537
    L2_E800 |->
      <<"2"," ","2","5","5","4","4"," "," ","5","1",".","6","4","1","6"," ","2","4","7",".","4","6","2","7"," ","0","0","0","6","7","0","3"," ","1","3","0",".","5","3","6","0"," ","3","2","5",".","0","2","8","8"," "," ","0",".","0","0","2","1","0","9","9","3","5","6","3","5","3","7">>,
    \* 2 25544  51.6416 247.4627 0006703 130.5360 325.0288  0.00210992563537
    L2_L800 |->
      <<"2"," ","2","5","5","4","4"," "," ","5","1",".","6","4","1","6"," ","2","4","7",".","4","6","2","7"," ","0","0","0","6","7","0","3"," ","1","3","0",".","5","3","6","0"," ","3","2","5",".","0","2","8","8"," "," ","0",".","0","0","2","1","0","9","9","2","5","6","3","5","3","7">>,
    \* 2 25544  51.6416 247.4627 0006703 130.5360 325.0288  0.00000000563537
    L2_ZERO |->
      <<"2"," ","2","5","5","4","4"," "," ","5","1",".","6","4","1","6"," ","2","4","7",".","4","6","2","7"," ","0","0","0","6","7","0","3"," ","1","3","0",".","5","3","6","0"," ","3","2","5",".","0","2","8","8"," "," ","0",".","0","0","0","0","0","0","0","0","5","6","3","5","3","7">>,
    \* 2 25544  51.6416 247.4627 0006703 130.5360 325.0288 -0.00224961563537
    L2_NEG |->
      <<"2"," ","2","5","5","4","4"," "," ","5","1",".","6","4","1","6"," ","2","4","7",".","4","6","2","7"," ","0","0","0","6","7","0","3"," ","1","3","0",".","5","3","6","0"," ","3","2","5",".","0","2","8","8"," ","-","0",".","0","0","2","2","4","9","6","1","5","6","3","5","3","7">>,
    \* 2 25544  5
    L2_SHORT |->
      <<"2"," ","2","5","5","4","4"," "," ","5">>,
    \* (two spaces)
    BLANK |->
      <<" "," ">>
  ]

(***************************************************************************)
(* State                                                                   *)
(***************************************************************************)

(* A call of parse_tle_data. *)
VARIABLES
  text_in,    \* the argument of parse_tle_data
  parsed,  \* its result
  ppc          \* "ready" before the call, "returned" after it

parseVars == << text_in, parsed, ppc >>

(* A call of to_space_object. *)
VARIABLES
  dict_in,     \* the argument of to_space_object
  object_out,  \* its result, in a sequence that is empty before the call
  cpc            \* "ready" before the call, "returned" after it

convertVars == << dict_in, object_out, cpc >>

(* The files and a run of update_all_tle_data. *)
VARIABLES
  cache,               \* category -> its cache file (NoFile or File)
  dataDir,             \* whether data_dir exists
  catalogFile,         \* space_objects.json: [state, objects]
  bpc,                 \* where update_all_tle_data is
  idx,                 \* index of the next category in the running loop
  all_space_objects,   \* the local list of the build
  updated_categories,  \* keys of the local dict of the build
  log,                 \* category -> what its iteration did (history)
  raisedBy,            \* the operation whose exception left the build
  cache0               \* the cache files as the build found them (history)

buildVars ==
  << cache, dataDir, catalogFile, bpc, idx, all_space_objects,
     updated_categories, log, raisedBy, cache0 >>

(* Schedule mode. *)
VARIABLES
  now,          \* the wall clock, in hours since the start
  next_run,     \* the hour the registered job is due (0: no job registered)
  mpc,          \* where the main thread is
  spc,          \* where the scheduler thread is
  progress,     \* thread -> 0 (not in a build) or the build step it is at
  builds,       \* thread -> number of builds it has completed
  alive,        \* whether the process is running
  interrupted,  \* whether the user has sent KeyboardInterrupt
  exit_cause    \* what ended the process

schedVars ==
  << now, next_run, mpc, spc, progress, builds, alive, interrupted, exit_cause >>

(***************************************************************************)
(* Python string and number primitives used by the parser.                 *)
(***************************************************************************)

Min(a, b) == IF a < b THEN a ELSE b

Ok(value) == [ok |-> TRUE, v |-> value]

Raised == [ok |-> FALSE]

(* s[a:b] for 0 <= a <= b: a slice never raises, it is cut at the end of s. *)
Slice(s, a, b) == SubSeq(s, a + 1, Min(b, Len(s)))

RECURSIVE LStrip(_)
LStrip(s) ==
  IF s # <<>> /\ Head(s) = " " THEN LStrip(Tail(s)) ELSE s

RECURSIVE RStrip(_)
RStrip(s) ==
  IF s # <<>> /\ s[Len(s)] = " " THEN RStrip(SubSeq(s, 1, Len(s) - 1)) ELSE s

(* str.strip() on one line. *)
Strip(s) == LStrip(RStrip(s))

DigitChars == {"0", "1", "2", "3", "4", "5", "6", "7", "8", "9"}

DigitVal(c) ==
  CASE c = "0" -> 0 [] c = "1" -> 1 [] c = "2" -> 2 [] c = "3" -> 3
    [] c = "4" -> 4 [] c = "5" -> 5 [] c = "6" -> 6 [] c = "7" -> 7
    [] c = "8" -> 8 [] c = "9" -> 9

AllDigits(s) == \A k \in 1..Len(s) : s[k] \in DigitChars

RECURSIVE DigitsVal(_)
DigitsVal(s) ==
  IF s = <<>> THEN 0
  ELSE DigitsVal(SubSeq(s, 1, Len(s) - 1)) * 10 + DigitVal(s[Len(s)])

RECURSIVE PadRight(_, _)
PadRight(s, n) == IF Len(s) >= n THEN SubSeq(s, 1, n) ELSE PadRight(Append(s, "0"), n)

(* The sign and the unsigned body of a numeric literal. *)
Unsigned(t) == IF t # <<>> /\ Head(t) \in {"+", "-"} THEN Tail(t) ELSE t

IsNegative(t) == t # <<>> /\ Head(t) = "-"

(* Position of the first "." in s, 0 when there is none. *)
DotAt(s) ==
  IF \E k \in 1..Len(s) : s[k] = "."
  THEN CHOOSE k \in 1..Len(s) : s[k] = "." /\ \A j \in 1..(k - 1) : s[j] # "."
  ELSE 0

(* int(s) on a decimal literal: surrounding blanks and a sign are accepted,
   anything else that is not a digit raises ValueError. *)
py_int(s) ==
  LET t == Strip(s)
      u == Unsigned(t)
  IN IF u = <<>> \/ ~AllDigits(u) THEN Raised
     ELSE Ok(IF IsNegative(t) THEN 0 - DigitsVal(u) ELSE DigitsVal(u))

(* float(s) on a decimal literal d*[.d*] with at least one digit; any other
   text (empty, inner blanks, letters) raises ValueError. *)
py_float(s) ==
  LET t == Strip(s)
      u == Unsigned(t)
      d == DotAt(u)
      ipart == IF d = 0 THEN u ELSE SubSeq(u, 1, d - 1)
      fpart == IF d = 0 THEN <<>> ELSE SubSeq(u, d + 1, Len(u))
  IN IF (ipart = <<>> /\ fpart = <<>>) \/ ~AllDigits(ipart) \/ ~AllDigits(fpart)
     THEN Raised
     ELSE Ok([neg |-> IsNegative(t),
              ip |-> DigitsVal(ipart),
              fp |-> DigitsVal(PadRight(fpart, 8))])

IsZero(x) == x.ip = 0 /\ x.fp = 0

(* x > 0 for a float value. *)
IsPositive(x) == ~x.neg /\ ~IsZero(x)

(* x in s (substring test). *)
Contains(s, x) ==
  \E k \in 0..(Len(s) - Len(x)) : SubSeq(s, k + 1, k + Len(x)) = x

LowerChar(c) ==
  CASE c = "A" -> "a" [] c = "B" -> "b" [] c = "C" -> "c" [] c = "D" -> "d"
    [] c = "E" -> "e" [] c = "F" -> "f" [] c = "G" -> "g" [] c = "H" -> "h"
    [] c = "I" -> "i" [] c = "J" -> "j" [] c = "K" -> "k" [] c = "L" -> "l"
    [] c = "M" -> "m" [] c = "N" -> "n" [] c = "O" -> "o" [] c = "P" -> "p"
    [] c = "Q" -> "q" [] c = "R" -> "r" [] c = "S" -> "s" [] c = "T" -> "t"
    [] c = "U" -> "u" [] c = "V" -> "v" [] c = "W" -> "w" [] c = "X" -> "x"
    [] c = "Y" -> "y" [] c = "Z" -> "z"
    [] OTHER -> c

(* str.lower() *)
Lower(s) == [k \in 1..Len(s) |-> LowerChar(s[k])]

(* round(x, 1) of a number given as n/unit: the nearest tenth, a tie going to
   the even tenth, as round() does on a float that holds the tie exactly. *)
Round1(n, unit) ==
  LET t == n * 10
      q == t \div unit
      r == t % unit
  IN IF 2 * r < unit THEN q
     ELSE IF 2 * r > unit THEN q + 1
     ELSE IF q % 2 = 0 THEN q ELSE q + 1

(* round(x, 1) of a float value, in tenths. *)
RoundFloat1(x) ==
  LET m == x.ip * 10 + Round1(x.fp, 100000000)
  IN IF x.neg THEN 0 - m ELSE m

(***************************************************************************)
(* parse_tle_data                                                          *)
(***************************************************************************)

LineNames == DOMAIN TleLines

(* The characters of a line of the text, stripped (lines[i].strip()). *)
LineText(l) == Strip(TleLines[l])

IsBlankLine(l) == LineText(l) = <<>>

RECURSIVE DropLeadingBlank(_)
DropLeadingBlank(text) ==
  IF text # <<>> /\ IsBlankLine(Head(text)) THEN DropLeadingBlank(Tail(text)) ELSE text

RECURSIVE DropTrailingBlank(_)
DropTrailingBlank(text) ==
  IF text # <<>> /\ IsBlankLine(text[Len(text)])
  THEN DropTrailingBlank(SubSeq(text, 1, Len(text) - 1))
  ELSE text

(* tle_data.strip().split('\n'): whitespace, line breaks included, is removed
   at both ends of the text, so blank lines at either end disappear; what is
   left is split at the line breaks, and an empty rest is one empty line. *)
SplitLines(tle_data) ==
  LET rest == DropTrailingBlank(DropLeadingBlank(tle_data))
  IN IF rest = <<>> THEN << <<>> >> ELSE [k \in 1..Len(rest) |-> LineText(rest[k])]

(* epoch_year + 2000 if epoch_year < 57 else epoch_year + 1900 *)
ResolveYear(epoch_year) ==
  IF epoch_year < 57 THEN epoch_year + 2000 ELSE epoch_year + 1900

IsLeap(y) == (y % 4 = 0 /\ y % 100 # 0) \/ y % 400 = 0

DaysIn(y) == IF IsLeap(y) THEN 366 ELSE 365

RECURSIVE CalendarDay(_, _)
CalendarDay(y, yday) ==
  IF yday < 1 THEN CalendarDay(y - 1, yday + DaysIn(y - 1))
  ELSE IF yday > DaysIn(y) THEN CalendarDay(y + 1, yday - DaysIn(y))
  ELSE [year |-> y, yday |-> yday]

(* datetime(epoch_year, 1, 1) + timedelta(days=epoch_day - 1), kept to the
   calendar day: the year and the day of the year. *)
EpochDate(epoch_year, epoch_day) ==
  LET whole == IF epoch_day.neg
               THEN 0 - epoch_day.ip - (IF epoch_day.fp > 0 THEN 1 ELSE 0)
               ELSE epoch_day.ip
  IN CalendarDay(epoch_year, whole)

(* 1440.0 / mean_motion, in 1/100 minute, for the mean motions of TleLines
   (mean motion given in 1e-8 rev/day). *)
Quotient1440(mm8) ==
  CASE mm8 = 1572125391 -> 9159
    [] mm8 = 224961 -> 64011095
    [] mm8 = 224960 -> 64011379
    [] mm8 = 210993 -> 68248709
    [] mm8 = 210992 -> 68249033

(* (8681663.0 / (mean_motion * 2 * 3.14159 / 86400.0) ** 2) ** (1/3), in
   0.1 m, for the same mean motions; the square makes the sign irrelevant. *)
CubeRootTerm(mm8) ==
  CASE mm8 = 1572125391 -> 187974
    [] mm8 = 224961 -> 68709846
    [] mm8 = 224960 -> 68710050
    [] mm8 = 210993 -> 71709787
    [] mm8 = 210992 -> 71710014

Magnitude8(x) == x.ip * 100000000 + x.fp

(* period_minutes = 1440.0 / mean_motion if mean_motion > 0 else 0 *)
period_minutes_of(mean_motion) ==
  IF IsPositive(mean_motion) THEN Quotient1440(Magnitude8(mean_motion)) ELSE 0

(* semi_major_axis: the division by the squared mean motion raises
   ZeroDivisionError when the mean motion is zero. *)
semi_major_axis_of(mean_motion) ==
  IF IsZero(mean_motion) THEN Raised ELSE Ok(CubeRootTerm(Magnitude8(mean_motion)))

(* altitude = semi_major_axis / 1000.0 - 6371.0 *)
altitude_of(semi_major_axis) == semi_major_axis - 63710000

DebrisTokens ==
  { <<"d", "e", "b">>, <<"d", "e", "b", "r", "i", "s">>, <<"r", "/", "b">>,
    <<"r", "o", "c", "k", "e", "t">> }

(* any(debris_cat in name.lower() for debris_cat in [...]) *)
is_debris_name(name) == \E tok \in DebrisTokens : Contains(Lower(name), tok)

(* The body of the try block for one group of three lines: the satellite
   dictionary, or Raised when any statement of the block raises. *)
ParseGroup(name, line1, line2) ==
  LET epoch_year == py_int(Slice(line1, 18, 20))
      epoch_day == py_float(Slice(line1, 20, 32))
      mean_motion == py_float(Slice(line2, 52, 63))
      eccentricity == py_float(<<"0", ".">> \o Slice(line2, 26, 33))
      inclination == py_float(Slice(line2, 8, 16))
  IN IF ~epoch_year.ok \/ ~epoch_day.ok \/ ~mean_motion.ok
        \/ ~eccentricity.ok \/ ~inclination.ok
     THEN Raised
     ELSE LET sma == semi_major_axis_of(mean_motion.v)
          IN IF ~sma.ok THEN Raised
             ELSE Ok([name |-> name,
                      norad_id |-> Strip(Slice(line1, 2, 7)),
                      int_designator |-> Strip(Slice(line1, 9, 17)),
                      epoch |-> EpochDate(ResolveYear(epoch_year.v), epoch_day.v),
                      period_minutes |-> period_minutes_of(mean_motion.v),
                      inclination |-> inclination.v,
                      eccentricity |-> eccentricity.v,
                      type |-> IF is_debris_name(name) THEN "debris" ELSE "satellite",
                      altitude |-> altitude_of(sma.v),
                      tle_line1 |-> line1,
                      tle_line2 |-> line2])

(* for i in range(0, len(lines), 3): if i + 2 < len(lines): ... ; i is the
   0-based index of the group's first line. *)
RECURSIVE ParseFrom(_, _)
ParseFrom(lines, i) ==
  IF i >= Len(lines) THEN <<>>
  ELSE LET rest == ParseFrom(lines, i + 3)
       IN IF i + 2 < Len(lines)
          THEN LET g == ParseGroup(lines[i + 1], lines[i + 2], lines[i + 3])
               IN IF g.ok THEN <<g.v>> \o rest ELSE rest
          ELSE rest

parse_tle_data(tle_data) == ParseFrom(SplitLines(tle_data), 0)

(***************************************************************************)
(* to_space_object                                                         *)
(***************************************************************************)

(* country_codes, in the order the dictionary is written and iterated. *)
country_codes ==
  << [code |-> <<"U", "S">>, name |-> "USA"],
     [code |-> <<"C", "I", "S">>, name |-> "Russia"],
     [code |-> <<"P", "R", "C">>, name |-> "China"],
     [code |-> <<"E", "S", "A">>, name |-> "ESA"],
     [code |-> <<"F", "R">>, name |-> "France"],
     [code |-> <<"J", "P">>, name |-> "Japan"],
     [code |-> <<"I", "N">>, name |-> "India"],
     [code |-> <<"C", "A">>, name |-> "Canada"],
     [code |-> <<"U", "K">>, name |-> "UK"] >>

(* The first code of the table found in the designator decides; "Unknown"
   when the designator is empty or holds none. *)
country_of(int_des) ==
  LET hits == {k \in 1..Len(country_codes) :
                 int_des # <<>> /\ Contains(int_des, country_codes[k].code)}
  IN IF hits = {} THEN "Unknown"
     ELSE country_codes[CHOOSE k \in hits : \A j \in hits : k <= j].name

(* A mutation of the thresholds: the comparisons made inclusive. *)
risk_level_inclusive(altitude) ==
  IF altitude <= 5000000 THEN "high"
  ELSE IF altitude <= 8000000 THEN "medium"
  ELSE "low"

(* A mutation of the thresholds: the first threshold one kilometre higher. *)
risk_level_shifted(altitude) ==
  IF altitude < 5010000 THEN "high"
  ELSE IF altitude < 8000000 THEN "medium"
  ELSE "low"

(* risk_level = "low"; if altitude < 500: "high"; elif altitude < 800:
   "medium" (altitude in 1e-4 km). *)
risk_level_of(altitude) ==
  IF altitude < 5000000 THEN "high"
  ELSE IF altitude < 8000000 THEN "medium"
  ELSE "low"

(* The SpaceObject dictionary, without lastUpdate (the wall clock at the
   time of the conversion). altitude, inclination and period are the
   published values, in tenths. *)
to_space_object(satellite) ==
  [id |-> (IF satellite.type = "satellite" THEN <<"S", "A", "T", "-">>
           ELSE <<"D", "E", "B", "-">>) \o satellite.norad_id,
   name |-> satellite.name,
   type |-> satellite.type,
   country |-> country_of(satellite.int_designator),
   launchDate |-> satellite.epoch,
   altitude |-> Round1(satellite.altitude, 10000),
   inclination |-> RoundFloat1(satellite.inclination),
   period |-> Round1(satellite.period_minutes, 6000),
   status |-> IF satellite.type = "satellite" THEN "active" ELSE "inactive",
   riskLevel |-> risk_level_of(satellite.altitude)]

(* [to_space_object(s) for s in satellites] *)
to_space_objects(satellites) ==
  [k \in 1..Len(satellites) |-> to_space_object(satellites[k])]

(***************************************************************************)
(* Calls of parse_tle_data and of to_space_object on bounded inputs        *)
(***************************************************************************)

(* The longest text, in lines, parse_tle_data is called on. *)
MaxLines == 6

(* The lines those texts are made of. *)
ParseAlphabet == {"N_ISS", "L1_A", "L2_ISS", "L2_ZERO", "L2_NEG", "L2_SHORT", "BLANK"}

ParseInit ==
  /\ text_in \in UNION {[1..n -> ParseAlphabet] : n \in 0..MaxLines}
  /\ parsed = <<>>
  /\ ppc = "ready"

ParseIdle ==
  /\ text_in = <<>>
  /\ parsed = <<>>
  /\ ppc = "unused"

CallParse ==
  /\ ppc = "ready"
  /\ parsed' = parse_tle_data(text_in)
  /\ ppc' = "returned"
  /\ UNCHANGED text_in
  /\ UNCHANGED << convertVars, buildVars, schedVars >>

(* Altitudes, in 1e-4 km, of the satellite dictionaries to_space_object is
   called on: the altitudes parse_tle_data derives from TleLines, and values
   at and around the two thresholds. *)
AltitudeSamples ==
  { -63522026, 0, 4990000, 4999400, 4999499, 4999500, 4999846, 4999999,
    5000000, 5000050, 5000499, 6500000, 7999499, 7999500, 7999787, 7999999,
    8000000, 8000014, 8000500, 12345678 }

EccentricitySamples == {py_float(<<"0", ".", "0", "0", "0", "6", "7", "0", "3">>).v,
                        py_float(<<"0", ".", "7", "5">>).v}

InclinationSamples == {py_float(<<"5", "1", ".", "6", "4", "1", "6">>).v,
                       py_float(<<"9", "8", ".", "2", "5">>).v}

SatelliteSamples ==
  { [name |-> IF t = "debris" THEN LineText("N_DEB") ELSE LineText("N_ISS"),
     norad_id |-> <<"2", "5", "5", "4", "4">>,
     int_designator |-> <<"9", "8", "0", "6", "7", "A">>,
     epoch |-> [year |-> 2024, yday |-> 100],
     period_minutes |-> 9159,
     inclination |-> i,
     eccentricity |-> e,
     type |-> t,
     altitude |-> a,
     tle_line1 |-> LineText("L1_A"),
     tle_line2 |-> LineText("L2_ISS")] :
    t \in {"satellite", "debris"}, a \in AltitudeSamples,
    e \in EccentricitySamples, i \in InclinationSamples }

ConvertInit ==
  /\ dict_in \in SatelliteSamples
  /\ object_out = <<>>
  /\ cpc = "ready"

ConvertIdle ==
  /\ dict_in = CHOOSE s \in SatelliteSamples : TRUE
  /\ object_out = <<>>
  /\ cpc = "unused"

CallConvert ==
  /\ cpc = "ready"
  /\ object_out' = <<to_space_object(dict_in)>>
  /\ cpc' = "returned"
  /\ UNCHANGED dict_in
  /\ UNCHANGED << parseVars, buildVars, schedVars >>

(***************************************************************************)
(* The category feeds, their cache files and update_all_tle_data           *)
(***************************************************************************)

(* The keys of SATELLITE_CATEGORIES and DEBRIS_CATEGORIES in the order they
   are written, which is the order .items() iterates them in. *)
SATELLITE_CATEGORIES ==
  << "active", "starlink", "stations", "visual", "weather", "noaa", "goes",
     "resource", "sarsat", "dmc", "tdrss", "argos", "planet", "spire" >>

DEBRIS_CATEGORIES ==
  << "last-30-days", "debris", "iridium-33-debris", "cosmos-2251-debris",
     "fengyun-1c-debris" >>

(* How many categories of each table a build of the model iterates. *)
MaxSatCats == 2

MaxDebCats == 1

SatCats == SubSeq(SATELLITE_CATEGORIES, 1, MaxSatCats)

DebCats == SubSeq(DEBRIS_CATEGORIES, 1, MaxDebCats)

Range(s) == {s[k] : k \in 1..Len(s)}

Cats == Range(SatCats) \cup Range(DebCats)

(* Processing order of the whole build: satellites, then debris. *)
BuildOrder == SatCats \o DebCats

(* update_interval_hours=24 *)
update_interval_hours == 24

(* Ages, in hours, a cache file may have when a build starts. *)
AgeSamples == {update_interval_hours, update_interval_hours + 1}

(* The text a category's cache file holds before the build, when it exists,
   and the text the remote feed answers with.  The same catalog number
   (25544) occurs in several feeds; the remote satellite feed has a
   malformed middle group, the remote debris feed a dangling fourth line. *)
CachedFeed(c) ==
  IF c \in Range(DebCats) THEN <<"N_DEB", "L1_B", "L2_ISS">>
  ELSE IF c = SatCats[1] THEN <<"N_ISS", "L1_A", "L2_E500">>
  ELSE <<"N_ISS", "L1_A", "L2_L800">>

RemoteFeed(c) ==
  IF c \in Range(DebCats) THEN <<"N_DEB", "L1_B", "L2_E800", "N_ISS">>
  ELSE <<"N_ISS", "L1_A", "L2_M500", "N_DEB", "L1_B", "L2_SHORT",
         "N_ISS", "L1_A", "L2_ISS">>

(* The feed texts of the model, and the objects to_space_object gives for
   the records parse_tle_data returns on each: evaluated once. *)
FeedTexts == {CachedFeed(c) : c \in Cats} \cup {RemoteFeed(c) : c \in Cats}

FeedObjects == [t \in FeedTexts |-> to_space_objects(parse_tle_data(t))]

(* satellites = parse_tle_data(tle_data), then to_space_object for each. *)
objects_of_text(tle_data) ==
  IF tle_data \in FeedTexts THEN FeedObjects[tle_data]
  ELSE to_space_objects(parse_tle_data(tle_data))

(* Python's None and an optional text. *)
None == [some |-> FALSE, text |-> <<>>]

Some(text) == [some |-> TRUE, text |-> text]

(* Truth value of an optional text: None and "" are false. *)
Truthy(x) == x.some /\ x.text # <<>>

NoFile == [exists |-> FALSE, text |-> <<>>, age |-> 0]

File(text, age) == [exists |-> TRUE, text |-> text, age |-> age]

(* What requests.get and raise_for_status may do for a category. *)
Responses(c) ==
  { [kind |-> "request_exception", text |-> <<>>],
    [kind |-> "ok", text |-> <<>>],
    [kind |-> "ok", text |-> RemoteFeed(c)] }

(* What the file system may do to a write and to a read. *)
WriteOutcomes == {"ok", "makedirs_error", "write_error"}

ReadOutcomes == {"ok", "read_error"}

NotRun == [fetch |-> "pending", done |-> FALSE, objects |-> <<>>]

BuildInit ==
  /\ cache \in [Cats -> {NoFile} \cup {File(CachedFeed(c), a) : c \in Cats, a \in AgeSamples}]
  /\ \A c \in Cats : cache[c].exists => cache[c].text = CachedFeed(c)
  /\ dataDir \in BOOLEAN
  /\ (\E c \in Cats : cache[c].exists) => dataDir
  /\ catalogFile = [state |-> "absent", objects |-> <<>>]
  /\ bpc = "idle"
  /\ idx = 0
  /\ all_space_objects = <<>>
  /\ updated_categories = {}
  /\ log = [c \in Cats |-> NotRun]
  /\ raisedBy = "nothing"
  /\ cache0 = cache

BuildIdle ==
  /\ cache = [c \in Cats |-> NoFile]
  /\ dataDir = FALSE
  /\ catalogFile = [state |-> "absent", objects |-> <<>>]
  /\ bpc = "unused"
  /\ idx = 0
  /\ all_space_objects = <<>>
  /\ updated_categories = {}
  /\ log = [c \in Cats |-> NotRun]
  /\ raisedBy = "nothing"
  /\ cache0 = cache

(* A mutation of needs_update: only a missing file asks for an update. *)
needs_update_missing_only(file) == ~file.exists

(* needs_update: the file is missing, or older than the interval. *)
needs_update(file) ==
  IF ~file.exists THEN TRUE ELSE file.age > update_interval_hours

(* A mutation of fetch_celestrak_tle: the request exception is not caught. *)
fetch_uncaught(response) ==
  IF response.kind = "request_exception" THEN Raised ELSE Ok(Some(response.text))

(* fetch_celestrak_tle: response.text, or None when requests raises a
   RequestException (connection failure, or raise_for_status on an error
   status); it never raises one itself. *)
fetch_celestrak_tle(response) ==
  IF response.kind = "request_exception" THEN Ok(None) ELSE Ok(Some(response.text))

(* save_tle_data: os.makedirs, then open(filename, 'w') and write.  It has
   no exception handler: [ok, file, dir] with ok false when it raises.  A
   write that fails after the open leaves the file truncated. *)
save_tle_data(data, file, dir, outcome) ==
  CASE outcome = "ok" -> [ok |-> TRUE, file |-> File(data, 0), dir |-> TRUE]
    [] outcome = "makedirs_error" -> [ok |-> FALSE, file |-> file, dir |-> dir]
    [] outcome = "write_error" -> [ok |-> FALSE, file |-> File(<<>>, 0), dir |-> TRUE]

(* A mutation of load_tle_data: the file is looked up under a wrong name. *)
load_wrong_name(file, outcome) == Ok(None)

(* load_tle_data: None when the file does not exist, else its content; a
   failing open or read is not handled. *)
load_tle_data(file, outcome) ==
  IF ~file.exists THEN Ok(None)
  ELSE IF outcome = "read_error" THEN Raised
  ELSE Ok(Some(file.text))

(* A mutation of the append loop: new objects are put in front. *)
prepend_objects(objects, new) == new \o objects

(* for satellite in satellites: all_space_objects.append(to_space_object(..)) *)
append_objects(objects, new) == objects \o new

(* update_all_tle_data enters its first loop. *)
BeginBuild ==
  /\ bpc = "idle"
  /\ bpc' = "satellites"
  /\ idx' = 1
  /\ all_space_objects' = <<>>
  /\ updated_categories' = {}
  /\ UNCHANGED << cache, dataDir, catalogFile, log, raisedBy, cache0 >>
  /\ UNCHANGED << parseVars, convertVars, schedVars >>

(* One iteration of a category loop, for category c, with what the network
   and the file system do during it.  next_pc and next_idx say where the
   build goes when the iteration ends normally. *)
UpdateCategory(c, response, wr, rd, next_pc, next_idx) ==
  LET need == needs_update(cache[c])
      fetched == IF need THEN fetch_celestrak_tle(response) ELSE Ok(None)
      saving == need /\ fetched.ok /\ Truthy(fetched.v)
      saved == IF saving THEN save_tle_data(fetched.v.text, cache[c], dataDir, wr)
               ELSE [ok |-> TRUE, file |-> cache[c], dir |-> dataDir]
      loaded == load_tle_data(saved.file, rd)
      objects == IF loaded.ok /\ Truthy(loaded.v)
                 THEN objects_of_text(loaded.v.text)
                 ELSE <<>>
      what == IF ~need THEN "not_attempted"
              ELSE IF ~fetched.ok \/ ~fetched.v.some THEN "failed"
              ELSE IF fetched.v.text = <<>> THEN "empty"
              ELSE "text"
      raised == IF ~fetched.ok THEN "fetch"
                ELSE IF ~saved.ok THEN "cache_write"
                ELSE IF ~loaded.ok THEN "cache_read"
                ELSE "nothing"
  IN /\ cache' = [cache EXCEPT ![c] = IF fetched.ok THEN saved.file ELSE @]
     /\ dataDir' = IF fetched.ok THEN saved.dir ELSE dataDir
     /\ IF raised = "nothing"
        THEN /\ updated_categories' =
                  IF saving THEN updated_categories \cup {c} ELSE updated_categories
             /\ all_space_objects' = append_objects(all_space_objects, objects)
             /\ log' = [log EXCEPT ![c] = [fetch |-> what, done |-> TRUE, objects |-> objects]]
             /\ bpc' = next_pc
             /\ idx' = next_idx
             /\ raisedBy' = raisedBy
        ELSE /\ log' = [log EXCEPT ![c] = [fetch |-> what, done |-> FALSE, objects |-> <<>>]]
             /\ bpc' = "aborted"
             /\ raisedBy' = raised
             /\ UNCHANGED << updated_categories, all_space_objects, idx >>
     /\ UNCHANGED << catalogFile, cache0 >>

(* for category, value in SATELLITE_CATEGORIES.items(): ... *)
UpdateSatelliteCategory ==
  /\ bpc = "satellites"
  /\ idx <= Len(SatCats)
  /\ \E response \in Responses(SatCats[idx]), wr \in WriteOutcomes, rd \in ReadOutcomes :
       UpdateCategory(SatCats[idx], response, wr, rd,
                      IF idx < Len(SatCats) THEN "satellites" ELSE "debris",
                      IF idx < Len(SatCats) THEN idx + 1 ELSE 1)
  /\ UNCHANGED << parseVars, convertVars, schedVars >>

(* for category, value in DEBRIS_CATEGORIES.items(): ... *)
UpdateDebrisCategory ==
  /\ bpc = "debris"
  /\ idx <= Len(DebCats)
  /\ \E response \in Responses(DebCats[idx]), wr \in WriteOutcomes, rd \in ReadOutcomes :
       UpdateCategory(DebCats[idx], response, wr, rd,
                      IF idx < Len(DebCats) THEN "debris" ELSE "catalog",
                      IF idx < Len(DebCats) THEN idx + 1 ELSE 0)
  /\ UNCHANGED << parseVars, convertVars, schedVars >>

(* with open(space_objects_file, 'w') as f: json.dump(all_space_objects, f):
   the open fails when data_dir does not exist (nothing creates it here) or
   the file system refuses it; a failing write leaves a partial file. *)
SaveCatalog ==
  /\ bpc = "catalog"
  /\ \E outcome \in {"ok", "open_error", "write_error"} :
       LET result == IF ~dataDir THEN "open_error" ELSE outcome
       IN /\ catalogFile' =
               CASE result = "ok" -> [state |-> "written", objects |-> all_space_objects]
                 [] result = "open_error" -> catalogFile
                 [] result = "write_error" -> [state |-> "partial", objects |-> <<>>]
          /\ bpc' = IF result = "ok" THEN "done" ELSE "aborted"
          /\ raisedBy' = IF result = "ok" THEN raisedBy ELSE "catalog_write"
  /\ UNCHANGED << cache, dataDir, idx, all_space_objects, updated_categories, log, cache0 >>
  /\ UNCHANGED << parseVars, convertVars, schedVars >>

BuildNext ==
  \/ BeginBuild
  \/ UpdateSatelliteCategory
  \/ UpdateDebrisCategory
  \/ SaveCatalog

(***************************************************************************)
(* Schedule mode: schedule_daily_updates and the --schedule branch         *)
(***************************************************************************)

(* Time is counted in hours since the program started. *)
HoursPerDay == 24

(* The horizon of the clock. *)
MaxHours == 26

Threads == {"main", "scheduler"}

(* The steps of one run of update_all_tle_data: one per category, then
   the write of the catalog file. *)
BuildSteps == Len(BuildOrder) + 1

SchedInit ==
  /\ now = 0
  /\ next_run = 0
  /\ mpc = "start"
  /\ spc = "not_started"
  /\ progress = [t \in Threads |-> 0]
  /\ builds = [t \in Threads |-> 0]
  /\ alive = TRUE
  /\ interrupted = FALSE
  /\ exit_cause = "running"

SchedIdle ==
  /\ now = 0
  /\ next_run = 0
  /\ mpc = "unused"
  /\ spc = "unused"
  /\ progress = [t \in Threads |-> 0]
  /\ builds = [t \in Threads |-> 0]
  /\ alive = FALSE
  /\ interrupted = FALSE
  /\ exit_cause = "unused"

(* The wall clock advances. *)
Tick ==
  /\ alive
  /\ now < MaxHours
  /\ now' = now + 1
  /\ UNCHANGED << next_run, mpc, spc, progress, builds, alive, interrupted, exit_cause >>
  /\ UNCHANGED << parseVars, convertVars, buildVars >>

(* schedule.every().day.at("HH:00").do(update_job): the job is due at the
   next HH:00, which is 1 to 24 hours ahead. *)
RegisterJob ==
  /\ alive
  /\ mpc = "start"
  /\ \E ahead \in 1..HoursPerDay : next_run' = now + ahead
  /\ mpc' = "registered"
  /\ UNCHANGED << now, spc, progress, builds, alive, interrupted, exit_cause >>
  /\ UNCHANGED << parseVars, convertVars, buildVars >>

(* scheduler_thread = threading.Thread(target=run_scheduler, daemon=True);
   scheduler_thread.start() *)
StartSchedulerThread ==
  /\ alive
  /\ mpc = "registered"
  /\ spc' = "run_pending"
  /\ mpc' = "initial_update"
  /\ UNCHANGED << now, next_run, progress, builds, alive, interrupted, exit_cause >>
  /\ UNCHANGED << parseVars, convertVars, buildVars >>

(* update_job() called by the main thread: the initial update begins. *)
InitialUpdateBegins ==
  /\ alive
  /\ mpc = "initial_update"
  /\ progress["main"] = 0
  /\ progress' = [progress EXCEPT !["main"] = 1]
  /\ mpc' = "in_update_job"
  /\ UNCHANGED << now, next_run, spc, builds, alive, interrupted, exit_cause >>
  /\ UNCHANGED << parseVars, convertVars, buildVars >>

(* run_scheduler: schedule.run_pending() runs update_job in the scheduler
   thread when the job is due; nothing looks at whether another build is
   running.  Otherwise the thread goes to time.sleep(60). *)
RunPending ==
  /\ alive
  /\ spc = "run_pending"
  /\ IF next_run > 0 /\ now >= next_run
     THEN /\ progress' = [progress EXCEPT !["scheduler"] = 1]
          /\ spc' = "in_update_job"
     ELSE /\ spc' = "sleeping"
          /\ UNCHANGED progress
  /\ UNCHANGED << now, next_run, mpc, builds, alive, interrupted, exit_cause >>
  /\ UNCHANGED << parseVars, convertVars, buildVars >>

(* time.sleep(60) returns in the scheduler thread. *)
SchedulerWakes ==
  /\ alive
  /\ spc = "sleeping"
  /\ spc' = "run_pending"
  /\ UNCHANGED << now, next_run, mpc, progress, builds, alive, interrupted, exit_cause >>
  /\ UNCHANGED << parseVars, convertVars, buildVars >>

(* The next HH:00 after hour h, given one HH:00 at hour due. *)
RECURSIVE NextDue(_, _)
NextDue(due, h) == IF due > h THEN due ELSE NextDue(due + HoursPerDay, h)

(* One step of update_all_tle_data in thread t.  A step that raises ends
   the thread: an exception in update_job is handled nowhere.  The main
   thread dying ends the process; the scheduler thread dying ends the
   polling. *)
BuildStep(t) ==
  /\ alive
  /\ progress[t] > 0
  /\ \E outcome \in {"ok", "raises"} :
       IF outcome = "raises"
       THEN /\ progress' = [progress EXCEPT ![t] = 0]
            /\ IF t = "main"
               THEN /\ alive' = FALSE
                    /\ mpc' = "exited"
                    /\ exit_cause' = "build_exception"
                    /\ UNCHANGED spc
               ELSE /\ spc' = "dead"
                    /\ UNCHANGED << alive, mpc, exit_cause >>
            /\ UNCHANGED << builds, next_run >>
       ELSE IF progress[t] < BuildSteps
       THEN /\ progress' = [progress EXCEPT ![t] = @ + 1]
            /\ UNCHANGED << builds, next_run, mpc, spc, alive, exit_cause >>
       ELSE /\ progress' = [progress EXCEPT ![t] = 0]
            /\ builds' = [builds EXCEPT ![t] = @ + 1]
            /\ IF t = "main"
               THEN /\ mpc' = "idle_loop"
                    /\ UNCHANGED << spc, next_run >>
               ELSE /\ spc' = "sleeping"
                    /\ next_run' = NextDue(next_run, now)
                    /\ UNCHANGED mpc
            /\ UNCHANGED << alive, exit_cause >>
  /\ UNCHANGED << now, interrupted >>
  /\ UNCHANGED << parseVars, convertVars, buildVars >>

MainBuildStep == BuildStep("main")

SchedulerBuildStep == BuildStep("scheduler")

(* Whether the name time is bound in the module's globals when __main__
   runs: the module imports requests, os, json, datetime and timedelta;
   "import time" stands only inside schedule_daily_updates. *)
time_is_global == FALSE

(* while True: time.sleep(1) in __main__: the name time is looked up in the
   module's globals; the NameError is not a KeyboardInterrupt, so it leaves
   the try statement and ends the main thread, and with it the process and
   its daemon thread. *)
MainIdleLoop ==
  /\ alive
  /\ mpc = "idle_loop"
  /\ IF time_is_global
     THEN UNCHANGED << mpc, alive, exit_cause >>
     ELSE /\ mpc' = "exited"
          /\ alive' = FALSE
          /\ exit_cause' = "NameError"
  /\ UNCHANGED << now, next_run, spc, progress, builds, interrupted >>
  /\ UNCHANGED << parseVars, convertVars, buildVars >>

(* The user presses Ctrl-C: KeyboardInterrupt is raised in the main thread,
   caught only around the idle loop; either way the main thread ends. *)
KeyboardInterrupt ==
  /\ alive
  /\ mpc \in {"start", "registered", "initial_update", "in_update_job", "idle_loop"}
  /\ interrupted' = TRUE
  /\ alive' = FALSE
  /\ mpc' = "exited"
  /\ exit_cause' = "KeyboardInterrupt"
  /\ UNCHANGED << now, next_run, spc, progress, builds >>
  /\ UNCHANGED << parseVars, convertVars, buildVars >>

SchedNext ==
  \/ Tick
  \/ RegisterJob
  \/ StartSchedulerThread
  \/ InitialUpdateBegins
  \/ RunPending
  \/ SchedulerWakes
  \/ MainBuildStep
  \/ SchedulerBuildStep
  \/ MainIdleLoop
  \/ KeyboardInterrupt

(***************************************************************************)
(* Specifications                                                          *)
(***************************************************************************)

vars == << parseVars, convertVars, buildVars, schedVars >>

(* parse_tle_data on every text of at most MaxLines lines. *)
InitParse == ParseInit /\ ConvertIdle /\ BuildIdle /\ SchedIdle

NextParse == CallParse

SpecParse == InitParse /\ [][NextParse]_vars

(* to_space_object on every sample dictionary. *)
InitConvert == ConvertInit /\ ParseIdle /\ BuildIdle /\ SchedIdle

NextConvert == CallConvert

SpecConvert == InitConvert /\ [][NextConvert]_vars

(* One run of update_all_tle_data from every initial state of the files. *)
InitBuild == BuildInit /\ ParseIdle /\ ConvertIdle /\ SchedIdle

SpecBuild == InitBuild /\ [][BuildNext]_vars

(* The program started with --schedule. *)
InitSchedule == SchedInit /\ ParseIdle /\ ConvertIdle /\ BuildIdle

SpecSchedule == InitSchedule /\ [][SchedNext]_vars

(***************************************************************************)
(* Properties                                                              *)
(***************************************************************************)

(* The five conversions of the try block succeed on a pair of lines. *)
FieldsConvert(line1, line2) ==
  /\ py_int(Slice(line1, 18, 20)).ok
  /\ py_float(Slice(line1, 20, 32)).ok
  /\ py_float(Slice(line2, 52, 63)).ok
  /\ py_float(<<"0", ".">> \o Slice(line2, 26, 33)).ok
  /\ py_float(Slice(line2, 8, 16)).ok

(* The complete groups of three lines (k counts groups from 0) and, among
   them, those whose fields all extract and convert. *)
CompleteGroups(lines) == 0..((Len(lines) \div 3) - 1)

WellFormedGroups(lines) ==
  {k \in CompleteGroups(lines) : FieldsConvert(lines[3 * k + 2], lines[3 * k + 3])}

(* The j-th smallest element of a finite set of numbers. *)
RECURSIVE NthOf(_, _)
NthOf(S, j) ==
  LET m == CHOOSE x \in S : \A y \in S : x <= y
  IN IF j = 1 THEN m ELSE NthOf(S \ {m}, j - 1)

RecordOfGroup(record, lines, k) ==
  /\ record.name = lines[3 * k + 1]
  /\ record.tle_line1 = lines[3 * k + 2]
  /\ record.tle_line2 = lines[3 * k + 3]

(* C1: parse_tle_data returns exactly one record per complete group of three
   lines whose fields all extract and convert, in input order; the number
   of records is the number of such groups. *)
C1_OneRecordPerWellFormedGroup ==
  ppc = "returned" =>
    LET lines == SplitLines(text_in)
        wf == WellFormedGroups(lines)
    IN /\ Len(parsed) = Cardinality(wf)
       /\ \A j \in 1..Len(parsed) : RecordOfGroup(parsed[j], lines, NthOf(wf, j))

MeanMotionOf(line2) == py_float(Slice(line2, 52, 63)).v

(* C2: a group whose fields all convert and whose mean motion is <= 0 is not
   skipped: a record is emitted for it, with period_minutes = 0 and
   altitude = 0. *)
C2_DegenerateGroupYieldsZeroRecord ==
  ppc = "returned" =>
    LET lines == SplitLines(text_in)
    IN \A k \in WellFormedGroups(lines) :
         ~IsPositive(MeanMotionOf(lines[3 * k + 3])) =>
           \E j \in 1..Len(parsed) :
             /\ RecordOfGroup(parsed[j], lines, k)
             /\ parsed[j].period_minutes = 0
             /\ parsed[j].altitude = 0

FileFailures == {"cache_write", "cache_read", "catalog_write"}

(* C3, as claimed: the only failure that aborts a run of update_all_tle_data
   is a failure writing the catalog file. *)
C3_OnlyCatalogWriteAborts ==
  bpc = "aborted" => raisedBy = "catalog_write"

(* C3, amended: a run is aborted by a failure writing the catalog file or by
   a failure writing or reading a category's cache file, and by nothing
   else; a cache-file failure stops the run in that category, with the
   catalog file not written.  A failed fetch and a malformed triplet are
   category-level: that category's iteration completes, all categories are
   processed before the catalog write, and a run that ends normally has
   written the catalog. *)
C3_OnlyFileFailuresAbort ==
  /\ bpc = "aborted" => raisedBy \in FileFailures
  /\ raisedBy \in {"cache_write", "cache_read"} =>
       /\ bpc = "aborted"
       /\ catalogFile.state = "absent"
       /\ \E c \in Cats : log[c].fetch # "pending" /\ ~log[c].done
  /\ \A c \in Cats :
       /\ log[c].fetch \in {"failed", "empty"} /\ raisedBy # "cache_read" => log[c].done
       /\ log[c].fetch = "text" /\ raisedBy \notin {"cache_write", "cache_read"} =>
            log[c].done
  /\ bpc \in {"catalog", "done"} => \A c \in Cats : log[c].done
  /\ bpc = "done" => catalogFile.state = "written"

(* A run aborted by a cache write after an earlier category's fetch failed
   without stopping it. *)
C3_Witness ==
  /\ bpc = "aborted"
  /\ raisedBy = "cache_write"
  /\ \E c \in Cats : log[c].done /\ log[c].fetch = "failed"

(* C4: in schedule mode the initial build of the main thread and a build
   started by the scheduler thread are never active at the same time. *)
C4_SingleActiveBuild ==
  ~(progress["main"] > 0 /\ progress["scheduler"] > 0)

(* C5: with --schedule, once the initial build has completed the process
   stays alive until the user interrupts it. *)
C5_AliveUntilInterrupted ==
  builds["main"] >= 1 /\ ~interrupted => alive

(* The objects a category contributes when its fetch fails: those of the
   cached text the build found, none when it found no file. *)
FallbackObjects(c) ==
  IF cache0[c].exists THEN objects_of_text(cache0[c].text) ELSE <<>>

(* Position of a category in the processing order, and of the build. *)
PositionOf(c) == CHOOSE k \in 1..Len(BuildOrder) : BuildOrder[k] = c

BuildPosition ==
  CASE bpc = "satellites" -> idx
    [] bpc = "debris" -> Len(SatCats) + idx
    [] bpc \in {"catalog", "done"} -> Len(BuildOrder) + 1
    [] OTHER -> 0

(* C6, as claimed: whenever a category's fetch fails, its records are those
   of the existing cached text (none without a cache file), the build goes
   on and the catalog is written. *)
C6_FetchFailureBuildCompletes ==
  \A c \in Cats :
    log[c].fetch = "failed" =>
      /\ log[c].done
      /\ log[c].objects = FallbackObjects(c)
      /\ bpc \in {"done", "aborted"} => catalogFile.state = "written"

(* C6, amended: when a category's fetch fails, its records are those of the
   existing cached text unless reading that file fails, which aborts the
   build; without a cache file it contributes nothing.  The fetch failure
   itself does not abort the build, which goes on to the next category; the
   catalog is written unless a cache-file or catalog-file operation fails. *)
C6_FetchFailureFallsBack ==
  \A c \in Cats :
    log[c].fetch = "failed" =>
      /\ log[c].done => log[c].objects = FallbackObjects(c)
      /\ ~log[c].done => cache0[c].exists /\ raisedBy = "cache_read" /\ bpc = "aborted"
      /\ log[c].done /\ bpc # "aborted" => BuildPosition > PositionOf(c)
      /\ bpc \in {"done", "aborted"} /\ raisedBy = "nothing" => catalogFile.state = "written"

(* A completed build in which a category with a stale cache file failed to
   fetch and contributed the objects of that file. *)
C6_Witness ==
  /\ bpc = "done"
  /\ \E c \in Cats :
       /\ log[c].fetch = "failed"
       /\ cache0[c].exists
       /\ log[c].objects # <<>>
       /\ log[c].objects = FallbackObjects(c)

(* The objects of a category: those of the records parsed from its cache
   file as the build leaves it. *)
CategoryObjects(c) ==
  IF cache[c].exists /\ cache[c].text # <<>> THEN objects_of_text(cache[c].text) ELSE <<>>

RECURSIVE ConcatObjects(_)
ConcatObjects(order) ==
  IF order = <<>> THEN <<>>
  ELSE CategoryObjects(Head(order)) \o ConcatObjects(Tail(order))

RECURSIVE SumRecords(_)
SumRecords(order) ==
  IF order = <<>> THEN 0
  ELSE Len(CategoryObjects(Head(order))) + SumRecords(Tail(order))

HasPrefix(id, prefix) == Len(id) >= Len(prefix) /\ SubSeq(id, 1, Len(prefix)) = prefix

(* C7: the catalog returned and written is the concatenation, satellite
   categories first and each table in declared order, of each category's
   objects in parse order, with nothing removed: its length is the sum of
   the record counts.  One group in one satellite feed and one in one
   debris feed give exactly two entities, the satellite feed's first. *)
C7_CatalogIsConcatenation ==
  bpc = "done" =>
    /\ all_space_objects = ConcatObjects(SatCats) \o ConcatObjects(DebCats)
    /\ catalogFile.objects = all_space_objects
    /\ Len(all_space_objects) = SumRecords(BuildOrder)
    /\ \A s \in Range(SatCats), d \in Range(DebCats) :
         ( /\ Len(CategoryObjects(s)) = 1
           /\ Len(CategoryObjects(d)) = 1
           /\ \A c \in Cats \ {s, d} : CategoryObjects(c) = <<>> )
         => /\ Len(all_space_objects) = 2
            /\ all_space_objects[1] = CategoryObjects(s)[1]
            /\ all_space_objects[2] = CategoryObjects(d)[1]

(* A written catalog in which two satellite feeds carry the same catalog
   number, followed by a debris feed's object. *)
C7_Witness ==
  /\ bpc = "done"
  /\ Len(all_space_objects) >= 3
  /\ \E i, j \in 1..Len(all_space_objects) :
       i < j /\ all_space_objects[i].id = all_space_objects[j].id
  /\ HasPrefix(all_space_objects[1].id, <<"S", "A", "T", "-">>)
  /\ HasPrefix(all_space_objects[Len(all_space_objects)].id, <<"D", "E", "B", "-">>)

(* C8: riskLevel is "high" iff altitude < 500, "medium" iff
   500 <= altitude < 800, "low" iff altitude >= 800, whatever the type,
   eccentricity and inclination of the record (altitude in 1e-4 km). *)
C8_RiskFromAltitudeAlone ==
  cpc = "returned" =>
    LET risk == object_out[1].riskLevel
        a == dict_in.altitude
    IN /\ risk = "high" <=> a < 5000000
       /\ risk = "medium" <=> (5000000 <= a /\ a < 8000000)
       /\ risk = "low" <=> a >= 8000000

(* A record at exactly 500 km, rated medium. *)
C8_Witness ==
  /\ cpc = "returned"
  /\ dict_in.altitude = 5000000
  /\ object_out[1].riskLevel = "medium"

(* Risk level the thresholds give for a published altitude (in tenths). *)
RiskOfPublished(tenths) ==
  IF tenths < 5000 THEN "high" ELSE IF tenths < 8000 THEN "medium" ELSE "low"

(* fetch attempted for a category whose iteration has run *)
FetchAttempted(c) == log[c].fetch \in {"failed", "empty", "text"}

(* C9: a fetch is attempted for a category iff its cache file is missing or
   older than 24 hours; the file is rewritten only when a fetch was
   attempted and returned non-empty text, and is the same file in every
   other case. *)
C9_FetchGatedAndCachePreserved ==
  \A c \in Cats :
    /\ log[c].fetch # "pending" =>
         (FetchAttempted(c) <=> (~cache0[c].exists \/ cache0[c].age > 24))
    /\ log[c].fetch # "text" => cache[c] = cache0[c]
    /\ log[c].fetch = "text" /\ log[c].done =>
         cache[c].exists /\ cache[c].text = RemoteFeed(c)

(* A stale cache file that survives a failed fetch unchanged, next to one
   of exactly 24 hours for which no fetch was attempted. *)
C9_Witness ==
  /\ \E c \in Cats :
       /\ log[c].fetch = "failed"
       /\ cache0[c].exists
       /\ cache0[c].age > 24
       /\ cache[c] = cache0[c]
  /\ \E c \in Cats :
       /\ log[c].fetch = "not_attempted"
       /\ cache0[c].age = 24

(* C10, as claimed: riskLevel is the level the thresholds give for the
   published altitude of the same entity. *)
C10_RiskAgreesWithPublishedAltitude ==
  cpc = "returned" =>
    object_out[1].riskLevel = RiskOfPublished(object_out[1].altitude)

(* C10, amended: riskLevel is the level the thresholds give for the
   published altitude except for a derived altitude within 0.05 km below a
   threshold: in [499.95, 500) the published altitude is 500.0 and riskLevel
   "high", in [799.95, 800) it is 800.0 and riskLevel "medium". *)
C10_RiskDisagreesOnlyJustBelowThreshold ==
  cpc = "returned" =>
    LET a == dict_in.altitude
        o == object_out[1]
    IN /\ (4999500 <= a /\ a < 5000000) => o.altitude = 5000 /\ o.riskLevel = "high"
       /\ (7999500 <= a /\ a < 8000000) => o.altitude = 8000 /\ o.riskLevel = "medium"
       /\ ~(4999500 <= a /\ a < 5000000) /\ ~(7999500 <= a /\ a < 8000000) =>
            o.riskLevel = RiskOfPublished(o.altitude)

(* The altitude parse_tle_data derives from mean motion 0.00224961:
   499.9846 km, published as 500.0 and rated high. *)
C10_Witness ==
  /\ cpc = "returned"
  /\ dict_in.altitude = 4999846
  /\ object_out[1].altitude = 5000
  /\ object_out[1].riskLevel = "high"
====
